---- MODULE Spec2Model ----
(***************************************************************************)
(* Model of merge_m3u.py: fetch three M3U playlists, parse each into an    *)
(* ordered mapping URL -> block of lines, merge the mappings first-wins    *)
(* and write the merged playlist.                                          *)
(*                                                                         *)
(* A Python str is a sequence of one-character strings, so that prefix,    *)
(* substring, lower(), strip(), split() and the two regular expressions    *)
(* are computed as the code computes them.  An OrderedDict is a sequence   *)
(* of records [url, block] with pairwise distinct url fields.              *)
(***************************************************************************)
EXTENDS Integers, Sequences, FiniteSets, TLC

VARIABLES
    pc,                   \* position of the run in main / parse_m3u
    src,                  \* number of SOURCES already taken by main's for loop
    content,              \* value returned by fetch_m3u: None or Some(str)
    lines,                \* parse_m3u: content.split('\n')
    i,                    \* parse_m3u: scan index (0-based, as in the code)
    entries,              \* parse_m3u: the OrderedDict being built
    group_excluded_count, \* parse_m3u: counter of line 74
    lang_excluded_count,  \* parse_m3u: counter of line 75
    source_entries,       \* main: dict source_name -> entries, in insertion order
    merged,               \* main: merged_entries (empty before merge_m3us returns)
    shared,               \* for each entry of merged, the list object it holds
    output,               \* merged.m3u: None while not written, else Some(text)
    fetchLog,             \* history: outcome of each fetch_m3u call, in call order
    mergeCalls,           \* history: number of calls of merge_m3us
    writes                \* history: number of times merged.m3u was written

vars == <<pc, src, content, lines, i, entries, group_excluded_count,
          lang_excluded_count, source_entries, merged, shared, output,
          fetchLog, mergeCalls, writes>>

\* Python's None, and a value that is not None
None == <<>>
Some(x) == <<x>>

----------------------------------------------------------------------------
(* Python str operations                                                   *)

\* str.lower() on one character
LowerOf ==
    [c \in {"A","B","C","D","E","F","G","H","I","J","K","L","M",
            "N","O","P","Q","R","S","T","U","V","W","X","Y","Z"} |->
        CASE c = "A" -> "a" [] c = "B" -> "b" [] c = "C" -> "c" [] c = "D" -> "d"
          [] c = "E" -> "e" [] c = "F" -> "f" [] c = "G" -> "g" [] c = "H" -> "h"
          [] c = "I" -> "i" [] c = "J" -> "j" [] c = "K" -> "k" [] c = "L" -> "l"
          [] c = "M" -> "m" [] c = "N" -> "n" [] c = "O" -> "o" [] c = "P" -> "p"
          [] c = "Q" -> "q" [] c = "R" -> "r" [] c = "S" -> "s" [] c = "T" -> "t"
          [] c = "U" -> "u" [] c = "V" -> "v" [] c = "W" -> "w" [] c = "X" -> "x"
          [] c = "Y" -> "y" [] c = "Z" -> "z"]

lower_char(c) == IF c \in DOMAIN LowerOf THEN LowerOf[c] ELSE c

\* str.lower()
lower(s) == [k \in DOMAIN s |-> lower_char(s[k])]

\* s.startswith(p)
startswith(s, p) == Len(s) >= Len(p) /\ \A j \in 1..Len(p) : s[j] = p[j]

\* p in s  (substring test)
contains(s, p) ==
    \E k \in 0..(Len(s) - Len(p)) : \A j \in 1..Len(p) : s[k + j] = p[j]

Whitespace == {" ", "\t", "\r"}

\* s.strip()
strip(s) ==
    LET ink == {k \in DOMAIN s : s[k] \notin Whitespace}
    IN  IF ink = {} THEN <<>>
        ELSE SubSeq(s, CHOOSE a \in ink : \A b \in ink : a <= b,
                       CHOOSE a \in ink : \A b \in ink : a >= b)

\* content.split('\n')
\* The text between consecutive '\n' characters: n separators give n + 1
\* lines; pos(j) is the position of the j-th separator.
split(s) ==
    LET nls    == {k \in 1..Len(s) : s[k] = "\n"}
        n      == Cardinality(nls)
        pos(j) == IF j = 0 THEN 0
                  ELSE IF j = n + 1 THEN Len(s) + 1
                  ELSE CHOOSE k \in nls : Cardinality({m \in nls : m <= k}) = j
    IN  [j \in 1..(n + 1) |-> SubSeq(s, pos(j - 1) + 1, pos(j) - 1)]

----------------------------------------------------------------------------
(* Module constants of merge_m3u.py                                        *)

NumSources == 3

EXCLUDED_GROUPS ==
    { <<"d","e","v","o","t","i","o","n","a","l">>,
      <<"m","u","s","i","c">>,
      <<"e","d","u","c","a","t","i","o","n","a","l">> }

EXCLUDE_LANGUAGES ==
    { <<"t","a","m","i","l">>,
      <<"t","e","l","u","g","u">>,
      <<"o","r","i","y","a">>,
      <<"g","u","j","a","r","a","t","i">>,
      <<"k","a","n","n","a","d","a">>,
      <<"m","a","l","a","y","a","l","a","m">>,
      <<"b","h","o","j","p","u","r","i">>,
      <<"p","u","n","j","a","b","i">>,
      <<"m","a","r","a","t","h","i">> }

EPG_URL ==
    <<"h","t","t","p","s",":","/","/","r","a","w",".","g","i","t","h","u","b",
      "u","s","e","r","c","o","n","t","e","n","t",".","c","o","m","/","i","b",
      "y","b","0","0","7","/","m","y","e","p","g","/","m","a","i","n","/","e",
      "p","g",".","x","m","l",".","g","z">>

HASH == <<"#">>
EXTINF == <<"#","E","X","T","I","N","F",":">>
GROUP_TITLE_EQ == <<"g","r","o","u","p","-","t","i","t","l","e","=","\"">>
QUOTE == <<"\"">>

----------------------------------------------------------------------------
(* get_group_title, is_excluded_group, is_excluded_language, title         *)

\* re.search(r'group-title="([^"]*)"', extinf_line, re.IGNORECASE):
\* the leftmost position where the key matches and a closing quote follows;
\* group(1) runs up to the first quote after the key.
get_group_title(extinf_line) ==
    LET n    == Len(GROUP_TITLE_EQ)
        low  == lower(extinf_line)
        hits == {k \in 0..(Len(low) - n) :
                    /\ \A j \in 1..n : low[k + j] = GROUP_TITLE_EQ[j]
                    /\ \E q \in (k + n + 1)..Len(low) : low[q] = "\""}
    IN  IF hits = {} THEN <<>>
        ELSE LET k == CHOOSE a \in hits : \A b \in hits : a <= b
                 q == CHOOSE a \in (k + n + 1)..Len(low) :
                         /\ low[a] = "\""
                         /\ \A b \in (k + n + 1)..(a - 1) : low[b] # "\""
             IN  SubSeq(low, k + n + 1, q - 1)

is_excluded_group_nolower(extinf_line) ==
    \E group \in EXCLUDED_GROUPS :
        contains(extinf_line, GROUP_TITLE_EQ \o group \o QUOTE)

is_excluded_group(extinf_line) ==
    LET lower_line == lower(extinf_line)
    IN  \E group \in EXCLUDED_GROUPS :
            contains(lower_line, GROUP_TITLE_EQ \o group \o QUOTE)

is_excluded_language(title) ==
    LET lower_title == lower(title)
    IN  \E lang \in EXCLUDE_LANGUAGES : contains(lower_title, lang)

\* title_match = re.search(r',(.+)$', extinf); the leftmost comma that is
\* followed by at least one character matches, group(1) is the rest of the
\* line; then .strip().  No match gives ''.
title_of(extinf) ==
    LET commas == {k \in 1..(Len(extinf) - 1) : extinf[k] = ","}
    IN  IF commas = {} THEN <<>>
        ELSE LET k == CHOOSE a \in commas : \A b \in commas : a <= b
             IN  strip(SubSeq(extinf, k + 1, Len(extinf)))

----------------------------------------------------------------------------
(* OrderedDict: a sequence of [url, block] records with distinct urls      *)

\* url in d
has_key(d, url) == \E k \in DOMAIN d : d[k].url = url

\* d[url]
get_item(d, url) == d[CHOOSE k \in DOMAIN d : d[k].url = url].block

\* d[url] = block : a new key goes last, an existing key keeps its place
set_item(d, url, block) ==
    IF has_key(d, url)
    THEN [k \in DOMAIN d |->
            IF d[k].url = url THEN [url |-> url, block |-> block] ELSE d[k]]
    ELSE Append(d, [url |-> url, block |-> block])

\* list(d.keys())
keys(d) == [k \in DOMAIN d |-> d[k].url]

----------------------------------------------------------------------------
(* parse_m3u                                                               *)

\* lines[k] with the code's 0-based index
line_at(ls, k) == ls[k + 1]

skip_block_stuck(ls, k) == k

\* Lines 84-88 (and 98-102): the index after the skipped block, from the
\* directive at index k.
skip_block(ls, k) ==
    LET stop == {j \in (k + 1)..Len(ls) :
                    \/ j = Len(ls)
                    \/ ~(\/ startswith(line_at(ls, j), HASH)
                         \/ strip(line_at(ls, j)) = <<>>)}
        j    == CHOOSE a \in stop : \A b \in stop : a <= b
    IN  IF j < Len(ls) /\ ~startswith(line_at(ls, j), HASH) THEN j + 1 ELSE j

\* Lines 106-114: the index at which the collection of '#' lines stops, from
\* the directive at index k.
block_end(ls, k) ==
    LET stop == {j \in (k + 1)..Len(ls) :
                    \/ j = Len(ls)
                    \/ ~(/\ startswith(line_at(ls, j), HASH)
                         /\ ~startswith(line_at(ls, j), EXTINF))}
    IN  CHOOSE a \in stop : \A b \in stop : a <= b

collect_block_extinf_only(ls, k) == <<line_at(ls, k)>>

collect_block_props_only(ls, k) == SubSeq(ls, k + 2, block_end(ls, k))

\* Lines 105-114: block = [extinf] + the '#' lines collected up to block_end.
collect_block(ls, k) ==
    <<line_at(ls, k)>> \o SubSeq(ls, k + 2, block_end(ls, k))

commit_block_overwrite(d, url, block) == set_item(d, url, block)

\* Lines 120-121
commit_block(d, url, block) ==
    IF ~has_key(d, url) THEN set_item(d, url, block) ELSE d

\* Lines 130-131
commit_plain(d, url) ==
    IF ~has_key(d, url) THEN set_item(d, url, <<>>) ELSE d

ParseEnter_keep_entries ==
    /\ pc = "parse"
    /\ IF content[1] = <<>>
       THEN /\ pc' = "returned"
            /\ lines' = <<>>
       ELSE /\ pc' = "scan"
            /\ lines' = split(content[1])
    /\ i' = 0
    /\ group_excluded_count' = 0
    /\ lang_excluded_count' = 0
    /\ UNCHANGED <<src, content, entries, source_entries, merged, shared, output,
                   fetchLog, mergeCalls, writes>>

\* Lines 69-75: entry of parse_m3u.
ParseEnter ==
    /\ pc = "parse"
    /\ IF content[1] = <<>>
       THEN /\ pc' = "returned"
            /\ lines' = <<>>
       ELSE /\ pc' = "scan"
            /\ lines' = split(content[1])
    /\ i' = 0
    /\ entries' = <<>>
    /\ group_excluded_count' = 0
    /\ lang_excluded_count' = 0
    /\ UNCHANGED <<src, content, source_entries, merged, shared, output, fetchLog,
                   mergeCalls, writes>>

AtDirective ==
    /\ pc = "scan"
    /\ i < Len(lines)
    /\ startswith(line_at(lines, i), EXTINF)

ParseFrame ==
    UNCHANGED <<pc, src, content, lines, source_entries, merged, shared, output,
                fetchLog, mergeCalls, writes>>

\* Lines 81-89: directive of an excluded group.
ParseGroupExcluded ==
    /\ AtDirective
    /\ is_excluded_group(line_at(lines, i))
    /\ group_excluded_count' = group_excluded_count + 1
    /\ i' = skip_block(lines, i)
    /\ UNCHANGED <<entries, lang_excluded_count>>
    /\ ParseFrame

\* Lines 91-103: directive whose title holds an excluded language.
ParseLangExcluded ==
    /\ AtDirective
    /\ ~is_excluded_group(line_at(lines, i))
    /\ is_excluded_language(title_of(line_at(lines, i)))
    /\ lang_excluded_count' = lang_excluded_count + 1
    /\ i' = skip_block(lines, i)
    /\ UNCHANGED <<entries, group_excluded_count>>
    /\ ParseFrame

\* Lines 105-124: a kept directive, its '#' lines, and a URL line after them.
ParseBlockUrl ==
    /\ AtDirective
    /\ ~is_excluded_group(line_at(lines, i))
    /\ ~is_excluded_language(title_of(line_at(lines, i)))
    /\ LET j == block_end(lines, i)
       IN  /\ j < Len(lines)
           /\ line_at(lines, j) # <<>>
           /\ ~startswith(line_at(lines, j), HASH)
           /\ entries' = commit_block(entries, line_at(lines, j),
                                      collect_block(lines, i))
           /\ i' = j + 1
    /\ UNCHANGED <<group_excluded_count, lang_excluded_count>>
    /\ ParseFrame

\* Lines 105-117 and 125-126: a kept directive with no URL after its '#'
\* lines (end of input, an empty line, or a '#EXTINF:' line); the line at
\* which the collection stopped is passed over by the i += 1 of line 126.
ParseBlockNoUrl ==
    /\ AtDirective
    /\ ~is_excluded_group(line_at(lines, i))
    /\ ~is_excluded_language(title_of(line_at(lines, i)))
    /\ LET j == block_end(lines, i)
       IN  /\ ~(/\ j < Len(lines)
                /\ line_at(lines, j) # <<>>
                /\ ~startswith(line_at(lines, j), HASH))
           /\ i' = j + 1
    /\ UNCHANGED <<entries, group_excluded_count, lang_excluded_count>>
    /\ ParseFrame

\* Lines 127-133: a plain URL line.
ParsePlain ==
    /\ pc = "scan"
    /\ i < Len(lines)
    /\ ~startswith(line_at(lines, i), EXTINF)
    /\ line_at(lines, i) # <<>>
    /\ ~startswith(line_at(lines, i), HASH)
    /\ entries' = commit_plain(entries, line_at(lines, i))
    /\ i' = i + 1
    /\ UNCHANGED <<group_excluded_count, lang_excluded_count>>
    /\ ParseFrame

\* Lines 134-135: header, comment or empty line.
ParseOther ==
    /\ pc = "scan"
    /\ i < Len(lines)
    /\ ~startswith(line_at(lines, i), EXTINF)
    /\ ~(line_at(lines, i) # <<>> /\ ~startswith(line_at(lines, i), HASH))
    /\ i' = i + 1
    /\ UNCHANGED <<entries, group_excluded_count, lang_excluded_count>>
    /\ ParseFrame

\* Lines 76 and 136-137: the loop ends and entries is returned.
ParseReturn ==
    /\ pc = "scan"
    /\ ~(i < Len(lines))
    /\ pc' = "returned"
    /\ UNCHANGED <<src, content, lines, i, entries, group_excluded_count,
                   lang_excluded_count, source_entries, merged, shared, output,
                   fetchLog, mergeCalls, writes>>

----------------------------------------------------------------------------
(* merge_m3us and save_merged                                              *)

merge_add_move_to_end(m, url, block) ==
    IF ~has_key(m, url) THEN set_item(m, url, block)
    ELSE Append(SelectSeq(m, LAMBDA e : e.url # url),
                [url |-> url, block |-> get_item(m, url)])

merge_add_overwrite(m, url, block) == set_item(m, url, block)

\* Lines 146-148
merge_add(m, url, block) ==
    IF ~has_key(m, url) THEN set_item(m, url, block) ELSE m

\* Lines 145-149: for url, block in entries.items()
RECURSIVE merge_source(_, _)
merge_source(m, es) ==
    IF es = <<>> THEN m
    ELSE merge_source(merge_add(m, Head(es).url, Head(es).block), Tail(es))

\* Lines 143-149: for source_name, entries in source_entries.items()
RECURSIVE merge_from(_, _)
merge_from(m, ses) ==
    IF ses = <<>> THEN m
    ELSE merge_from(merge_source(m, Head(ses).entries), Tail(ses))

\* Lines 139-153
merge_m3us(ses) == merge_from(<<>>, ses)

\* Line 158: '#EXTM3U url-tvg="{EPG_URL}"'
HEADER ==
    <<"#","E","X","T","M","3","U"," ","u","r","l","-","t","v","g","=","\"">>
        \o EPG_URL \o QUOTE

NL == <<"\n">>

\* Lines 160-161: for b_line in block: f.write(b_line + '\n')
RECURSIVE write_block(_)
write_block(block) ==
    IF block = <<>> THEN <<>>
    ELSE Head(block) \o NL \o write_block(Tail(block))

write_entry_url_first(e) == e.url \o NL \o write_block(e.block)

\* Lines 160-162: one entry of merged
write_entry(e) == write_block(e.block) \o e.url \o NL

\* Lines 159-162: for url, block in merged.items()
RECURSIVE write_entries(_)
write_entries(m) ==
    IF m = <<>> THEN <<>>
    ELSE write_entry(Head(m)) \o write_entries(Tail(m))

save_merged_header_unterminated(m) == HEADER \o write_entries(m)

\* Lines 155-163: the text written to merged.m3u
save_merged(m) == HEADER \o NL \o write_entries(m)

----------------------------------------------------------------------------
(* main                                                                    *)

\* '\n'.join(doc)
RECURSIVE join(_)
join(doc) ==
    IF Len(doc) = 1 THEN doc[1]
    ELSE doc[1] \o NL \o join(Tail(doc))

SeqsUpTo(S, n) == UNION {[1..k -> S] : k \in 1..n}

MainFrame ==
    UNCHANGED <<lines, i, entries, group_excluded_count, lang_excluded_count,
                merged, shared, output, mergeCalls, writes>>

\* Lines of the documents explored.
L_EMPTY        == <<>>
L_BLANK        == <<" ">>
L_PROP         == <<"#","K">>
L_INF_A        == EXTINF \o <<"-","1",",","A">>
L_INF_NOCOMMA  == EXTINF \o <<"-","1"," ","T","a","m","i","l">>
L_INF_MUSIC    == EXTINF \o <<"-","1"," ">> \o GROUP_TITLE_EQ
                         \o <<"M","u","s","i","c","\"",",","M">>
L_INF_TAMIL    == EXTINF \o <<"-","1",",","X"," ","T","a","m","i","l">>
L_INF_TAMIL_HD == EXTINF \o <<"-","1",",","T","a","m","i","l",",","H","D">>
\* '#EXTINF:-1 group-title="N" group-title="Music",N'
L_INF_TWO_GROUPS ==
    EXTINF \o <<"-","1"," ">> \o GROUP_TITLE_EQ \o <<"N","\""," ">>
           \o GROUP_TITLE_EQ \o <<"M","u","s","i","c","\"",",","N">>
L_URL_U        == <<"u">>
L_URL_V        == <<"v">>

\* Bounds: every document of at most MaxLines lines of LinePool is handed to
\* parse_m3u alone, every document of at most MaxFetchLines lines of
\* FetchPool is a possible result of a fetch, and every document of at most
\* MaxFairLines lines of LinePool is parsed by the call that runs on.
MaxLines == 3
MaxFetchLines == 2
MaxFairLines == 2

LinePool ==
    {L_EMPTY, L_BLANK, L_PROP, L_INF_A, L_INF_NOCOMMA, L_INF_MUSIC,
     L_INF_TAMIL, L_INF_TAMIL_HD, L_INF_TWO_GROUPS, L_URL_U, L_URL_V}

FetchPool == {L_PROP, L_INF_A, L_INF_MUSIC, L_INF_TAMIL, L_URL_U, L_URL_V}

\* Longer documents a fetch may also return: blocks with '#' lines, and
\* excluded blocks next to a kept one.
LongDocs ==
    { <<L_INF_A, L_PROP, L_URL_U>>,
      <<L_INF_A, L_PROP, L_PROP, L_URL_V>>,
      <<L_URL_V, L_INF_A, L_PROP, L_URL_U>>,
      <<L_INF_MUSIC, L_URL_U, L_INF_TAMIL, L_URL_V, L_INF_A, L_URL_U>> }

\* What fetch_m3u can return on success: '' or a document.
FetchContents ==
    {<<>>} \cup {join(d) : d \in SeqsUpTo(FetchPool, MaxFetchLines) \cup LongDocs}

\* Longer documents also handed to parse_m3u alone: repeated locators and
\* blocks with several '#' lines.
LongParseDocs ==
    LongDocs \cup
    { <<L_INF_A, L_URL_U, L_INF_NOCOMMA, L_URL_U>>,
      <<L_INF_A, L_PROP, L_URL_U, L_INF_NOCOMMA, L_URL_U>>,
      <<L_INF_NOCOMMA, L_URL_U, L_URL_V, L_URL_U>>,
      <<L_URL_U, L_INF_A, L_PROP, L_URL_U>>,
      <<L_INF_A, L_PROP, L_INF_MUSIC, L_PROP, L_URL_U>>,
      <<L_INF_TAMIL_HD, L_PROP, L_URL_U, L_INF_A, L_URL_V>> }

ParseContents ==
    {join(d) : d \in SeqsUpTo(LinePool, MaxLines) \cup LongParseDocs}

MainFetchError_abort ==
    /\ pc = "fetch"
    /\ src < NumSources
    /\ content' = None
    /\ src' = NumSources
    /\ fetchLog' = Append(fetchLog, "error")
    /\ UNCHANGED <<pc, source_entries>>
    /\ MainFrame

\* Lines 36-41 and 171-177: urlopen/read/decode raised; fetch_m3u returned
\* None and the source is skipped.
MainFetchError ==
    /\ pc = "fetch"
    /\ src < NumSources
    /\ content' = None
    /\ src' = src + 1
    /\ fetchLog' = Append(fetchLog, "error")
    /\ UNCHANGED <<pc, source_entries>>
    /\ MainFrame

\* Lines 36-38 and 171-177: fetch_m3u returned '', which "if content:"
\* takes as false; the source is skipped.
MainFetchEmpty ==
    /\ pc = "fetch"
    /\ src < NumSources
    /\ content' = None
    /\ src' = src + 1
    /\ fetchLog' = Append(fetchLog, "empty")
    /\ UNCHANGED <<pc, source_entries>>
    /\ MainFrame

\* Lines 36-38 and 171-173: fetch_m3u returned a non-empty text and
\* parse_m3u is called on it.
MainFetchParse ==
    /\ pc = "fetch"
    /\ src < NumSources
    /\ \E c \in FetchContents \ {<<>>} : content' = Some(c)
    /\ pc' = "parse"
    /\ fetchLog' = Append(fetchLog, "content")
    /\ UNCHANGED <<src, source_entries>>
    /\ MainFrame

\* Lines 174-175: source_entries[source_name] = entries; the source names
\* are distinct (they hold the source number), so the key is new.  The
\* locals of the finished iteration are cleared.
MainStore ==
    /\ pc = "returned"
    /\ source_entries' =
           Append(source_entries, [name |-> src + 1, entries |-> entries])
    /\ src' = src + 1
    /\ pc' = "fetch"
    /\ content' = None
    /\ lines' = <<>>
    /\ i' = 0
    /\ entries' = <<>>
    /\ group_excluded_count' = 0
    /\ lang_excluded_count' = 0
    /\ UNCHANGED <<merged, shared, output, fetchLog, mergeCalls, writes>>

no_sources_no_entries(ses) == \A k \in DOMAIN ses : ses[k].entries = <<>>

\* Line 179: not source_entries
no_sources(ses) == ses = <<>>

\* Lines 179-181
MainNoSources ==
    /\ pc = "fetch"
    /\ src = NumSources
    /\ no_sources(source_entries)
    /\ pc' = "done"
    /\ UNCHANGED <<src, content, source_entries, fetchLog>>
    /\ MainFrame

\* Python list objects.  Every block of a source mapping is a list object,
\* named <<k, n>> for entry n of source k; with_refs puts the name in the
\* place of the list and heap_of gives the list of each name.
with_refs(ses) ==
    [k \in DOMAIN ses |->
        [name    |-> ses[k].name,
         entries |-> [n \in DOMAIN ses[k].entries |->
                         [url   |-> ses[k].entries[n].url,
                          block |-> <<k, n>>]]]]

heap_of(ses) ==
    [r \in UNION {{<<k, n>> : n \in DOMAIN ses[k].entries} : k \in DOMAIN ses}
        |-> ses[r[1]].entries[r[2]].block]

\* A mapping, and the source mappings, with the lists the heap h holds.
deref(m, h) ==
    [n \in DOMAIN m |-> [url |-> m[n].url, block |-> h[m[n].block]]]

deref_sources(srs, h) ==
    [k \in DOMAIN srs |->
        [name |-> srs[k].name, entries |-> deref(srs[k].entries, h)]]

\* The merged mapping with the list object of each entry in place.
merged_objects(m, sh) ==
    [n \in DOMAIN m |-> [url |-> m[n].url, block |-> sh[n]]]

\* Lines 143-149: merge_m3us reads the lists of the source mappings and
\* stores them in merged (line 148); it writes to none of them.
lists_after_merge(h, mr) == h

lists_after_save_url_appended(h, mr) ==
    [r \in DOMAIN h |->
        IF \E n \in DOMAIN mr : mr[n].block = r
        THEN Append(h[r], mr[CHOOSE n \in DOMAIN mr : mr[n].block = r].url)
        ELSE h[r]]

\* Lines 159-162: save_merged iterates over the lists of merged and writes
\* to none of them.
lists_after_save(h, mr) == h

\* Lines 183-184: merge_m3us runs over the source mappings; merged holds
\* the list objects of the source entries it took.
MainMerge ==
    /\ pc = "fetch"
    /\ src = NumSources
    /\ ~no_sources(source_entries)
    /\ LET mr == merge_m3us(with_refs(source_entries))
           h  == lists_after_merge(heap_of(source_entries), mr)
       IN  /\ shared' = [n \in DOMAIN mr |-> mr[n].block]
           /\ merged' = deref(mr, h)
           /\ source_entries' = deref_sources(with_refs(source_entries), h)
    /\ mergeCalls' = mergeCalls + 1
    /\ pc' = "save"
    /\ UNCHANGED <<src, content, lines, i, entries, group_excluded_count,
                   lang_excluded_count, output, fetchLog, writes>>

\* Lines 185-186: save_merged writes the text of merged.
MainSave ==
    /\ pc = "save"
    /\ output' = Some(save_merged(merged))
    /\ LET mr == merged_objects(merged, shared)
           h  == lists_after_save(heap_of(source_entries), mr)
       IN  /\ merged' = deref(mr, h)
           /\ source_entries' = deref_sources(with_refs(source_entries), h)
    /\ writes' = writes + 1
    /\ pc' = "done"
    /\ UNCHANGED <<src, content, lines, i, entries, group_excluded_count,
                   lang_excluded_count, shared, fetchLog, mergeCalls>>

----------------------------------------------------------------------------
(* Specifications                                                          *)

InitLocals ==
    /\ src = 0
    /\ lines = <<>>
    /\ i = 0
    /\ entries = <<>>
    /\ group_excluded_count = 0
    /\ lang_excluded_count = 0
    /\ source_entries = <<>>
    /\ merged = <<>>
    /\ shared = <<>>
    /\ output = None
    /\ fetchLog = <<>>
    /\ mergeCalls = 0
    /\ writes = 0

\* A run of main.
Init ==
    /\ pc = "fetch"
    /\ content = None
    /\ InitLocals

ParseStep ==
    \/ ParseEnter
    \/ ParseGroupExcluded
    \/ ParseLangExcluded
    \/ ParseBlockUrl
    \/ ParseBlockNoUrl
    \/ ParsePlain
    \/ ParseOther
    \/ ParseReturn

Next ==
    \/ MainFetchError
    \/ MainFetchEmpty
    \/ MainFetchParse
    \/ ParseStep
    \/ MainStore
    \/ MainNoSources
    \/ MainMerge
    \/ MainSave

Spec == Init /\ [][Next]_vars

\* One call parse_m3u(content), on every document of ParseContents.
InitParse ==
    /\ pc = "parse"
    /\ content \in {Some(c) : c \in ParseContents}
    /\ InitLocals

NextParse == ParseStep

SpecParse == InitParse /\ [][NextParse]_vars

\* One call parse_m3u(content) that runs on (a sequential program executes
\* its next statement), on every document of at most MaxFairLines lines and
\* on the longer documents.
InitParseFair ==
    /\ pc = "parse"
    /\ content \in {Some(join(d)) :
                       d \in SeqsUpTo(LinePool, MaxFairLines) \cup LongParseDocs}
    /\ InitLocals

SpecParseFair == InitParseFair /\ [][NextParse]_vars /\ WF_vars(NextParse)

\* Three calls of parse_m3u in one process, as the loop of main makes them
\* (lines 171-174): on a text, on the text of another source, and on the
\* first text again.  The first result is kept under the text parsed; the
\* variables of a finished call are left as the call left them.
InitPurity ==
    /\ pc = "parse"
    /\ content \in {Some(c) : c \in FetchContents}
    /\ InitLocals

PurityOther ==
    /\ pc = "returned"
    /\ src = 0
    /\ source_entries' = <<[name |-> content[1], entries |-> entries]>>
    /\ \E d \in LongDocs : content' = Some(join(d))
    /\ src' = 1
    /\ pc' = "parse"
    /\ UNCHANGED <<lines, i, entries, group_excluded_count,
                   lang_excluded_count, merged, shared, output, fetchLog, mergeCalls,
                   writes>>

PurityAgain ==
    /\ pc = "returned"
    /\ src = 1
    /\ content' = Some(source_entries[1].name)
    /\ src' = 2
    /\ pc' = "parse"
    /\ UNCHANGED <<lines, i, entries, group_excluded_count,
                   lang_excluded_count, source_entries, merged, shared, output,
                   fetchLog, mergeCalls, writes>>

NextPurity ==
    \/ ParseStep
    \/ PurityOther
    \/ PurityAgain

SpecPurity == InitPurity /\ [][NextPurity]_vars

\* A run of main, after which parse_m3u is called on the text that
\* save_merged wrote.
MainStoreOfRun ==
    /\ mergeCalls = 0
    /\ MainStore

RoundTripCall ==
    /\ pc = "done"
    /\ output # None
    /\ content' = output
    /\ pc' = "parse"
    /\ UNCHANGED <<src, lines, i, entries, group_excluded_count,
                   lang_excluded_count, source_entries, merged, shared, output,
                   fetchLog, mergeCalls, writes>>

NextRoundTrip ==
    \/ MainFetchError
    \/ MainFetchEmpty
    \/ MainFetchParse
    \/ ParseStep
    \/ MainStoreOfRun
    \/ MainNoSources
    \/ MainMerge
    \/ MainSave
    \/ RoundTripCall

SpecRoundTrip == Init /\ [][NextRoundTrip]_vars

\* The text with its empty lines taken out ('' when none is left).
without_empty_lines(text) ==
    LET ls == SelectSeq(split(text), LAMBDA l : l # <<>>)
    IN  IF ls = <<>> THEN <<>> ELSE join(ls)

\* Two calls of parse_m3u: on a text, then on the same text without its
\* empty lines.  The first result is kept under the text parsed.
BlankAgain ==
    /\ pc = "returned"
    /\ src = 0
    /\ source_entries' = <<[name |-> content[1], entries |-> entries]>>
    /\ content' = Some(without_empty_lines(content[1]))
    /\ src' = 1
    /\ pc' = "parse"
    /\ UNCHANGED <<lines, i, entries, group_excluded_count,
                   lang_excluded_count, merged, shared, output, fetchLog, mergeCalls,
                   writes>>

NextBlank ==
    \/ ParseStep
    \/ BlankAgain

SpecBlank == InitParse /\ [][NextBlank]_vars

----------------------------------------------------------------------------
(* Vocabulary of the claims                                                *)

IsDirective(l) == startswith(l, EXTINF)
IsAttribute(l) == startswith(l, HASH) /\ ~IsDirective(l)
IsLocator(l)   == l # <<>> /\ ~startswith(l, HASH)

\* The text after the last comma of a line, empty if it has no comma.
TitleAfterLastComma(l) ==
    LET commas == {k \in DOMAIN l : l[k] = ","}
    IN  IF commas = {} THEN <<>>
        ELSE SubSeq(l, (CHOOSE a \in commas : \A b \in commas : a >= b) + 1,
                    Len(l))

ContainsLanguage(t) ==
    \E lang \in EXCLUDE_LANGUAGES : contains(lower(t), lang)

CategoryExcluded(l) == get_group_title(l) \in EXCLUDED_GROUPS

\* A directive line that the stated rules exclude.
StatedExcluded(l) ==
    CategoryExcluded(l) \/ ContainsLanguage(TitleAfterLastComma(l))

\* 1-based index of the line that ends the block of the directive at index
\* k: the first line after k that is not an attribute line (Len + 1 at the
\* end of the input).
TerminatorOf(ls, k) ==
    LET stop == {j \in (k + 1)..(Len(ls) + 1) :
                    j = Len(ls) + 1 \/ ~IsAttribute(ls[j])}
    IN  CHOOSE a \in stop : \A b \in stop : a <= b

Scanning == pc = "scan" /\ i < Len(lines)

\* 1-based indexes of the lines the scan has passed.
Scanned == 1..(IF i < Len(lines) THEN i ELSE Len(lines))

----------------------------------------------------------------------------
(* C1 *)

\* C1: when parse_m3u has returned, for every directive line of the
\* document whose category is an excluded category or whose title holds an
\* excluded language token, the locator line that ends that directive's
\* block is not a key of the returned mapping.  Stated for the locator lines
\* that occur once in the document, so that no other block or bare line can
\* account for the key.
C1_ExclusionCompleteness ==
    pc = "returned" =>
        \A k \in DOMAIN lines :
            (IsDirective(lines[k]) /\ StatedExcluded(lines[k])) =>
                LET j == TerminatorOf(lines, k)
                IN  (/\ j <= Len(lines)
                     /\ IsLocator(lines[j])
                     /\ \A m \in DOMAIN lines : m # j => lines[m] # lines[j])
                    => ~has_key(entries, lines[j])

----------------------------------------------------------------------------
(* C10 *)

\* C10: at a directive line that is not group-excluded, parse_m3u counts and
\* skips the block as language-excluded if and only if the text after the
\* line's last comma holds an excluded language token.
C10_TitleAfterLastComma ==
    [][ (Scanning /\ IsDirective(line_at(lines, i))
                  /\ ~is_excluded_group(line_at(lines, i)))
        => ( (lang_excluded_count' = lang_excluded_count + 1)
             <=> ContainsLanguage(TitleAfterLastComma(line_at(lines, i))) )
      ]_vars

----------------------------------------------------------------------------
(* C2 *)

SourcesSharing(url) ==
    {k \in DOMAIN source_entries : has_key(source_entries[k].entries, url)}

\* C2: once merge_m3us has returned, every locator of a source mapping is a
\* key of the merged mapping, and its merged block is the block it has in
\* the earliest source mapping (in the order given) that holds it.
C2_FirstWinsAcrossSources ==
    mergeCalls > 0 =>
        \A k \in DOMAIN source_entries :
            \A n \in DOMAIN source_entries[k].entries :
                LET e == source_entries[k].entries[n]
                IN  (\A k2 \in SourcesSharing(e.url) : k <= k2)
                    => /\ has_key(merged, e.url)
                       /\ get_item(merged, e.url) = e.block

\* A merge in which two sources hold the same locator with different blocks.
C2_Witness ==
    /\ mergeCalls > 0
    /\ \E k1, k2 \in DOMAIN source_entries :
        /\ k1 < k2
        /\ \E n \in DOMAIN source_entries[k1].entries :
            LET e == source_entries[k1].entries[n]
            IN  /\ has_key(source_entries[k2].entries, e.url)
                /\ get_item(source_entries[k2].entries, e.url) # e.block

----------------------------------------------------------------------------
(* C3 *)

\* The keys of the mapping stored for source number n, none if it failed.
KeysOfSource(n) ==
    IF \E k \in DOMAIN source_entries : source_entries[k].name = n
    THEN keys(source_entries[CHOOSE k \in DOMAIN source_entries :
                                 source_entries[k].name = n].entries)
    ELSE <<>>

RECURSIVE ConcatKeys(_)
ConcatKeys(n) ==
    IF n = 0 THEN <<>> ELSE ConcatKeys(n - 1) \o KeysOfSource(n)

\* s without every element that occurs earlier in s.
RECURSIVE DedupFirst(_)
DedupFirst(s) ==
    IF s = <<>> THEN <<>>
    ELSE LET front == SubSeq(s, 1, Len(s) - 1)
             last  == s[Len(s)]
         IN  IF \E q \in DOMAIN front : front[q] = last
             THEN DedupFirst(front)
             ELSE Append(DedupFirst(front), last)

\* C3: once merge_m3us has returned in a run of main, the keys of the merged
\* mapping, in iteration order, are the keys of the loaded sources'
\* mappings concatenated in the order of SOURCES, with every later
\* occurrence of an already seen locator removed.
C3_OrderPreserved ==
    mergeCalls > 0 => keys(merged) = DedupFirst(ConcatKeys(NumSources))

\* A merge where a later source holds an already seen locator after a
\* locator that is still after it in the merged order.
C3_Witness ==
    /\ mergeCalls > 0
    /\ Len(merged) >= 2
    /\ \E k1, k2 \in DOMAIN source_entries :
        /\ k1 < k2
        /\ Len(source_entries[k1].entries) >= 2
        /\ Len(source_entries[k2].entries) >= 2
        /\ source_entries[k1].entries[1].url = source_entries[k2].entries[2].url
        /\ source_entries[k1].entries[2].url = source_entries[k2].entries[1].url

----------------------------------------------------------------------------
(* C5 *)

RECURSIVE ExpectedLines(_)
ExpectedLines(m) ==
    IF m = <<>> THEN <<>>
    ELSE Head(m).block \o <<Head(m).url>> \o ExpectedLines(Tail(m))

\* C5: the text written by save_merged consists of the header line, then
\* for each entry of the merged mapping in iteration order its block lines
\* in block order and its locator line, each line ended by a newline, and
\* nothing else.
C5_SerializerStructure ==
    output # None =>
        split(output[1]) = <<HEADER>> \o ExpectedLines(merged) \o <<L_EMPTY>>

\* A written document with an entry of several block lines and a Plain Entry.
C5_Witness ==
    /\ output # None
    /\ \E a, b \in DOMAIN merged :
        /\ Len(merged[a].block) >= 2
        /\ merged[b].block = <<>>

----------------------------------------------------------------------------
(* C4 *)

\* block is one directive line followed by attribute lines only.
BlockShape(block) ==
    /\ IsDirective(block[1])
    /\ \A k \in 2..Len(block) : IsAttribute(block[k])

\* block is the run of lines of ls that ends right before 1-based index j.
RunBefore(ls, j, block) ==
    /\ j > Len(block)
    /\ SubSeq(ls, j - Len(block), j - 1) = block

\* C4: (a) whenever a step of parse_m3u makes a locator L a key with a
\* non-empty block, L is the line the scan has just passed and the block is
\* the contiguous run of input lines, one directive line and then its
\* attribute lines, that ends right before that line; (b) so every
\* non-empty block of the mapping is such a run before a scanned occurrence
\* of its key.
C4_VerbatimBlocks ==
    /\ [][ pc = "scan" =>
             \A n \in DOMAIN entries' :
                 (~has_key(entries, entries'[n].url)
                    /\ entries'[n].block # <<>>)
                 => /\ i' >= 1
                    /\ lines[i'] = entries'[n].url
                    /\ RunBefore(lines, i', entries'[n].block)
                    /\ i' - Len(entries'[n].block) = i + 1
                    /\ BlockShape(entries'[n].block) ]_vars
    /\ [](pc \in {"scan", "returned"} =>
             \A n \in DOMAIN entries :
                 entries[n].block # <<>> =>
                     /\ BlockShape(entries[n].block)
                     /\ \E j \in Scanned :
                         /\ lines[j] = entries[n].url
                         /\ RunBefore(lines, j, entries[n].block))

\* parse_m3u has returned a block of a directive and two attribute lines.
C4_Witness ==
    /\ pc = "returned"
    /\ \E n \in DOMAIN entries : Len(entries[n].block) >= 3

----------------------------------------------------------------------------
(* C6 *)

\* No directive line of the block is excluded: neither by the stated rules
\* nor by the title the code extracts.
NoExcludedDirective(block) ==
    \A k \in DOMAIN block :
        IsDirective(block[k]) =>
            /\ ~StatedExcluded(block[k])
            /\ ~ContainsLanguage(title_of(block[k]))

NoExcludedIn(m) == \A n \in DOMAIN m : NoExcludedDirective(m[n].block)

\* C6: no block of the mapping parse_m3u builds and returns, of a stored
\* source mapping or of the merged mapping, and no line of the written
\* document, is a directive line of an excluded group or with an excluded
\* language token in its title.
C6_NoExcludedReachesOutput ==
    /\ NoExcludedIn(entries)
    /\ \A k \in DOMAIN source_entries : NoExcludedIn(source_entries[k].entries)
    /\ NoExcludedIn(merged)
    /\ output # None => NoExcludedDirective(split(output[1]))

\* parse_m3u has returned a mapping with a block, from a document that also
\* held a group-excluded and a language-excluded directive.
C6_Witness ==
    /\ pc = "returned"
    /\ group_excluded_count > 0
    /\ lang_excluded_count > 0
    /\ \E n \in DOMAIN entries : entries[n].block # <<>>

----------------------------------------------------------------------------
(* C7 *)

\* C7: a step of the scan of parse_m3u keeps every entry of the mapping at
\* its place with its block: later blocks and bare lines with the same
\* locator change nothing.
C7_FirstWinsWithinSource ==
    [][ pc = "scan" =>
          /\ Len(entries') >= Len(entries)
          /\ \A n \in DOMAIN entries : entries'[n] = entries[n] ]_vars

\* The scan has passed a second occurrence of a key, offered there with a
\* block (or as a bare line) other than the block the key has.
C7_Witness ==
    /\ pc = "scan"
    /\ \E n \in DOMAIN entries :
        \E j1, j2 \in Scanned :
            /\ j1 < j2
            /\ lines[j1] = entries[n].url
            /\ lines[j2] = entries[n].url
            /\ \/ /\ entries[n].block # <<>>
                  /\ RunBefore(lines, j1, entries[n].block)
                  /\ \/ j2 = j1 + 1
                     \/ /\ lines[j2 - 1] = L_INF_NOCOMMA
                        /\ entries[n].block[1] # L_INF_NOCOMMA
               \/ /\ entries[n].block = <<>>
                  /\ j1 = 1
                  /\ lines[j2 - 1] = L_INF_A

----------------------------------------------------------------------------
(* C8 *)

AllFetched == Len(fetchLog) = NumSources

\* C8: a failed fetch does not end the run: the run ends only after every
\* source of SOURCES has been fetched, one per loop iteration in order; a
\* source whose fetch failed has no mapping in source_entries; and a run in
\* which every fetch failed ends with no call of merge_m3us and no output.
C8_FetchFailureHandling ==
    /\ Len(fetchLog) = src + (IF pc \in {"parse", "scan", "returned"} THEN 1 ELSE 0)
    /\ pc \in {"save", "done"} => AllFetched
    /\ mergeCalls > 0 => AllFetched
    /\ \A k \in DOMAIN fetchLog :
          fetchLog[k] = "error" =>
              \A n \in DOMAIN source_entries : source_entries[n].name # k
    /\ (pc = "done" /\ \A k \in DOMAIN fetchLog : fetchLog[k] = "error")
          => (mergeCalls = 0 /\ writes = 0 /\ output = None)

\* A finished run whose first fetch failed and whose later sources were
\* fetched, parsed, merged and written.
C8_Witness ==
    /\ pc = "done"
    /\ fetchLog[1] = "error"
    /\ fetchLog[2] = "content"
    /\ fetchLog[3] = "content"
    /\ Len(source_entries) = 2
    /\ merged # <<>>
    /\ output # None

----------------------------------------------------------------------------
(* C9 *)

SomeFetch(outcomes) == \E k \in DOMAIN fetchLog : fetchLog[k] \in outcomes

\* C9 as stated: the run ends without merge and write only when every fetch
\* failed; when at least one fetch succeeded, even with empty content, the
\* run has merged and has written the document exactly once.
C9_AnySuccessWrites ==
    pc = "done" =>
        IF SomeFetch({"empty", "content"})
        THEN mergeCalls = 1 /\ writes = 1 /\ output # None
        ELSE mergeCalls = 0 /\ writes = 0 /\ output = None

\* C9 amended: the run ends without merge and write exactly when every
\* fetch failed or returned empty content; when at least one fetch returned
\* non-empty content, even one whose entries are all excluded, the run has
\* merged and has written the complete document exactly once.
C9_NonEmptyContentWrites ==
    /\ writes <= 1
    /\ pc = "done" =>
        IF SomeFetch({"content"})
        THEN /\ mergeCalls = 1
             /\ writes = 1
             /\ output # None
             /\ split(output[1]) =
                    <<HEADER>> \o ExpectedLines(merged) \o <<L_EMPTY>>
        ELSE mergeCalls = 0 /\ writes = 0 /\ output = None

\* A finished run in which the only content fetched gave no entry, and the
\* document, made of the header alone, was written.
C9_Witness ==
    /\ pc = "done"
    /\ SomeFetch({"content"})
    /\ SomeFetch({"error"})
    /\ \A k \in DOMAIN source_entries : source_entries[k].entries = <<>>
    /\ writes = 1
    /\ output = Some(HEADER \o NL)

----------------------------------------------------------------------------
(* C11 *)

\* C11: a step of parse_m3u at a directive line counts it as excluded by
\* category exactly when the category extracted from the line (the value of
\* its first quoted group-title attribute, lowercased, empty when absent) is
\* one of the excluded categories.
C11_CategoryDecisionIsExtractedValue ==
    [][Scanning /\ IsDirective(line_at(lines, i)) =>
          ((group_excluded_count' = group_excluded_count + 1)
              <=> CategoryExcluded(line_at(lines, i)))]_vars

----------------------------------------------------------------------------
(* C12 *)

\* C12: when parse_m3u has returned from parsing a text again, after the
\* text of another source was parsed in between, the mapping it returns is
\* the mapping its first call on that text returned: same keys, same order,
\* same blocks.
C12_ParseIsPure ==
    (pc = "returned" /\ src = 2) => entries = source_entries[1].entries

\* The second parse of a text with a kept block and both kinds of exclusion
\* has returned.
C12_Witness ==
    /\ pc = "returned"
    /\ src = 2
    /\ entries # <<>>
    /\ group_excluded_count = 1
    /\ lang_excluded_count = 1

----------------------------------------------------------------------------
(* C13 *)

\* The 0-based index at which the scan stands after the block of the
\* directive at 0-based index k has been passed: after the locator that ends
\* the attribute run if there is one, else at the line that ends the run.
AfterBlock(ls, k) ==
    LET t == TerminatorOf(ls, k + 1)
    IN  IF t <= Len(ls) /\ IsLocator(ls[t]) THEN t ELSE t - 1

\* C13: a step of parse_m3u that excludes a directive (by category or by
\* language) moves the scan past exactly that directive, the attribute lines
\* immediately following it, and the locator line after them if there is
\* one; no directive line lies among the lines it passes.
C13_SkipExtent ==
    [][(/\ Scanning
        /\ IsDirective(line_at(lines, i))
        /\ \/ group_excluded_count' = group_excluded_count + 1
           \/ lang_excluded_count' = lang_excluded_count + 1)
       => /\ i' = AfterBlock(lines, i)
          /\ \A k \in (i + 1)..(i' - 1) : ~IsDirective(line_at(lines, k))]_vars

----------------------------------------------------------------------------
(* C14 *)

\* C14: a step of parse_m3u at a directive that is not excluded and whose
\* attribute run is ended by another directive line inserts nothing and
\* leaves the scan at that second directive line, which the next step then
\* processes as a directive.
C14_ResumeAtNextDirective ==
    [][(/\ Scanning
        /\ IsDirective(line_at(lines, i))
        /\ group_excluded_count' = group_excluded_count
        /\ lang_excluded_count' = lang_excluded_count
        /\ TerminatorOf(lines, i + 1) <= Len(lines)
        /\ IsDirective(lines[TerminatorOf(lines, i + 1)]))
       => /\ entries' = entries
          /\ i' = TerminatorOf(lines, i + 1) - 1]_vars

----------------------------------------------------------------------------
(* C15 *)

\* C15: when parse_m3u has returned from parsing a text from which the empty
\* lines were taken out, the mapping it returns is the mapping it returned
\* for the text with the empty lines in place.
C15_EmptyLinesIgnorable ==
    (pc = "returned" /\ src = 1) => entries = source_entries[1].entries

----------------------------------------------------------------------------
(* C16 *)

\* C16: during a call of parse_m3u the scan index never decreases, every
\* iteration of the outer loop advances it by at least one line and leaves
\* it at most one past the end of the input, a step is possible in every
\* state before the return (no statement fails), and the call returns.
C16_TerminatesInOnePass ==
    /\ [][i' >= i]_vars
    /\ [][(pc = "scan" /\ pc' = "scan") =>
              (i < i' /\ i' <= Len(lines) + 1)]_vars
    /\ [](pc # "returned" => ENABLED NextParse)
    /\ <>(pc = "returned")

\* parse_m3u has returned from an input that ends inside a block: the last
\* line is an attribute line of a kept directive, and the scan index stands
\* one past the end.
C16_Witness ==
    /\ pc = "returned"
    /\ Len(lines) >= 2
    /\ IsDirective(lines[Len(lines) - 1])
    /\ IsAttribute(lines[Len(lines)])
    /\ i = Len(lines) + 1
    /\ group_excluded_count + lang_excluded_count = 0

----------------------------------------------------------------------------
(* C17 *)

\* Every key of m is a non-empty line that does not begin with '#', and
\* every block of m is empty or is one directive line followed only by
\* attribute lines.
WellFormed(m) ==
    \A n \in DOMAIN m :
        /\ IsLocator(m[n].url)
        /\ m[n].block = <<>> \/ BlockShape(m[n].block)

\* C17: the mapping parse_m3u is building, every source mapping stored by
\* main and the merged mapping are well formed at every moment of a run.
C17_MappingsWellFormed ==
    /\ WellFormed(entries)
    /\ \A k \in DOMAIN source_entries : WellFormed(source_entries[k].entries)
    /\ WellFormed(merged)

\* A run has ended with three source mappings, one of them holding a block
\* of a single directive, and a merged mapping that holds a block with
\* attribute lines and a plain entry.
C17_Witness ==
    /\ pc = "done"
    /\ Len(source_entries) = 3
    /\ \E k \in DOMAIN source_entries :
        \E n \in DOMAIN source_entries[k].entries :
            Len(source_entries[k].entries[n].block) = 1
    /\ \E a, b \in DOMAIN merged :
        /\ Len(merged[a].block) >= 2
        /\ merged[b].block = <<>>

----------------------------------------------------------------------------
(* C18 *)

\* C18: when parse_m3u has returned from parsing the text that save_merged
\* wrote for the merged mapping of a run, the mapping it returns is that
\* merged mapping: same keys, same order, same blocks.
C18_RoundTrip ==
    (pc = "returned" /\ writes = 1) => entries = merged

\* The written text of a merged mapping that holds a block with attribute
\* lines and a plain entry has been parsed.
C18_Witness ==
    /\ pc = "returned"
    /\ writes = 1
    /\ Len(entries) >= 2
    /\ \E a, b \in DOMAIN merged :
        /\ Len(merged[a].block) >= 2
        /\ merged[b].block = <<>>

----------------------------------------------------------------------------
(* C19 *)

\* C19: the step of main that runs merge_m3us and the step that runs
\* save_merged leave every source mapping as it was: same keys, same order,
\* same block contents.
C19_SourcesUnchanged ==
    [][(mergeCalls' = mergeCalls + 1 \/ writes' = writes + 1)
           => source_entries' = source_entries]_vars

\* A run has merged and saved, and an entry of merged holds the list object
\* of an entry of the second source mapping stored, a block with attribute
\* lines.
C19_Witness ==
    /\ pc = "done"
    /\ writes = 1
    /\ \E n \in DOMAIN merged :
        /\ shared[n][1] = 2
        /\ Len(merged[n].block) >= 2
        /\ source_entries[2].entries[shared[n][2]].block = merged[n].block

====
